---- MODULE Spec2Model ----
(***************************************************************************)
(* A model of png_to_mc_pixelart.py: the conversion of an image into a     *)
(* list of Minecraft setblock commands.                                    *)
(*                                                                         *)
(* The run of main() is one sequential pipeline:                           *)
(*   load -> resize -> quantize -> emit (one step per grid cell) ->        *)
(*   write the .mcfunction file -> optional preview -> done                *)
(* and any step may end the run in the state "failed".                     *)
(*                                                                         *)
(* The pure function nearest_color is also exercised on its own, on        *)
(* arbitrary small palettes (specification SpecNearest).                   *)
(***************************************************************************)
EXTENDS Integers, Sequences, FiniteSets, TLC

VARIABLES
    pc,           \* position of main(): "load", "resize", "quantize", "emit",
                  \* "write", "preview", "done", "failed"
    err,          \* the exception that ended the run, "" while there is none
    args,         \* the parsed command line (argparse namespace)
    im_size,      \* (w0, h0) of the loaded image, <<0, 0>> before the load
    target,       \* (target_w, target_h) asked of Image.resize
    im_small,     \* the resized image, a grid of RGB triples (rows of pixels)
    pixels,       \* np.array(im_small)
    H, W,         \* pixels.shape[0], pixels.shape[1]
    mapped_idxs,  \* the quantized grid of 0-based palette indices
    row_idx,      \* loop counters of the emission loop
    col_idx,
    commands,     \* the command list
    calls,        \* the arguments of every build_setblock_cmd call so far
    file,         \* the output path: [exists, lines]
    file0,        \* what the output path held when the run started
    writes,       \* number of times the output path was opened for writing
    preview,      \* the saved preview image, or NoPreview
    rgb,          \* nearest_color on its own: the pixel,
    palette_arr,  \*   the palette (a sequence of RGB triples),
    idx           \*   and the returned index (NoIdx before the call)

pvars == <<pc, err, args, im_size, target, im_small, pixels, H, W, mapped_idxs,
           row_idx, col_idx, commands, calls, file, file0, writes, preview>>
nvars == <<rgb, palette_arr, idx>>
vars == <<pvars, nvars>>

----------------------------------------------------------------------------
(* Bounds of the model *)

MaxWidth == 2       \* --width is drawn from -1 .. MaxWidth
MaxW0 == 3          \* the source image is at most MaxW0 x MaxH0
MaxH0 == 2
MaxCommands == 4    \* --max-commands is drawn from -1 .. MaxCommands
MaxPal == 3         \* synthetic palettes have 1 .. MaxPal entries

----------------------------------------------------------------------------
(* Palettes, in definition (dict insertion) order *)

E(n, r, g, b) == [name |-> n, rgb |-> <<r, g, b>>]

CONCRETE_PALETTE ==
    << E("white", 209, 213, 214),     E("orange", 240, 118, 19),
       E("magenta", 189, 68, 179),    E("light_blue", 58, 175, 217),
       E("yellow", 249, 198, 39),     E("lime", 112, 185, 25),
       E("pink", 237, 141, 172),      E("gray", 62, 68, 71),
       E("light_gray", 142, 142, 134), E("cyan", 21, 137, 142),
       E("purple", 121, 42, 172),     E("blue", 53, 57, 157),
       E("brown", 100, 58, 36),       E("green", 73, 91, 36),
       E("red", 161, 39, 34),         E("black", 20, 21, 25) >>

WOOL_PALETTE ==
    << E("white", 234, 236, 237),     E("orange", 241, 118, 20),
       E("magenta", 238, 77, 201),    E("light_blue", 128, 199, 248),
       E("yellow", 250, 198, 39),     E("lime", 112, 185, 25),
       E("pink", 242, 141, 170),      E("gray", 57, 57, 57),
       E("light_gray", 151, 151, 151), E("cyan", 20, 137, 140),
       E("purple", 107, 50, 168),     E("blue", 44, 46, 143),
       E("brown", 96, 59, 31),        E("green", 73, 91, 36),
       E("red", 176, 46, 38),         E("black", 12, 12, 12) >>

PALETTES == [concrete |-> CONCRETE_PALETTE, wool |-> WOOL_PALETTE]

\* list(palette.keys()) and np.array([palette[n] for n in palette_names])
palette_names(p) == [i \in 1..Len(p) |-> p[i].name]
palette_colors(p) == [i \in 1..Len(p) |-> p[i].rgb]

----------------------------------------------------------------------------
(* nearest_color *)

\* Two's complement wrap of x to a signed integer of the given width
Wrap(x, bits) == ((x + 2^(bits - 1)) % 2^bits) - 2^(bits - 1)

\* The subtraction left in the pixel's own dtype, uint8
diffs_uint8(c, p) == [k \in 1..3 |-> (c[k] - p[k]) % 256]

\* palette_arr - np.array(rgb, dtype=np.int16): one row of diffs, int16
diffs(c, p) == [k \in 1..3 |-> Wrap(c[k] - Wrap(p[k], 16), 16)]

\* np.sum(diffs.astype(np.int32) ** 2, axis=1): one entry of dists. The
\* squares and their sum are int32; for int16 diffs of 8-bit channels they
\* stay below 3 * 255^2, far from the int32 range, so no wrap is applied
dists(c, p) ==
    LET d == diffs(c, p)
    IN  d[1] * d[1] + d[2] * d[2] + d[3] * d[3]

\* A scan that keeps the last minimum instead of the first
RECURSIVE argmin_last(_, _, _)
argmin_last(ds, i, best) ==
    IF i > Len(ds) THEN best
    ELSE argmin_last(ds, i + 1, IF ds[i] <= ds[best] THEN i ELSE best)

\* np.argmax in place of np.argmin
RECURSIVE argmax_from(_, _, _)
argmax_from(ds, i, best) ==
    IF i > Len(ds) THEN best
    ELSE argmax_from(ds, i + 1, IF ds[i] > ds[best] THEN i ELSE best)

\* np.argmin: scan in order, keep the first minimum; best is 1-based here
RECURSIVE argmin_from(_, _, _)
argmin_from(ds, i, best) ==
    IF i > Len(ds) THEN best
    ELSE argmin_from(ds, i + 1, IF ds[i] < ds[best] THEN i ELSE best)

\* The 0-based index of the palette entry nearest to pixel p
nearest_color(p, pal) ==
    LET ds == [i \in 1..Len(pal) |-> dists(pal[i], p)]
    IN  argmin_from(ds, 2, 1) - 1

----------------------------------------------------------------------------
(* Formatting *)

Digit(d) == <<"0", "1", "2", "3", "4", "5", "6", "7", "8", "9">>[d + 1]

\* The decimal digits of a natural number, most significant first
RECURSIVE NatStr(_)
NatStr(n) == IF n < 10 THEN Digit(n) ELSE NatStr(n \div 10) \o Digit(n % 10)

\* Python's str() of an int
str(n) == IF n < 0 THEN "-" \o NatStr(0 - n) ELSE NatStr(n)

\* The token without the special case for 0
offset_token_plain(offset) == "~" \o str(offset)

\* 0 -> "~", 5 -> "~5", -2 -> "~-2"
offset_token(offset) == IF offset = 0 THEN "~" ELSE "~" \o str(offset)

build_setblock_cmd(xoff, y, zoff, block_fullname) ==
    "setblock " \o offset_token(xoff) \o " " \o str(y) \o " "
        \o offset_token(zoff) \o " " \o block_fullname \o " replace"

\* f"minecraft:{block_color_name}_{args.blocktype}"
block_fullname(block_color_name, blocktype) ==
    "minecraft:" \o block_color_name \o "_" \o blocktype

----------------------------------------------------------------------------
(* Resize *)

\* Python's round() of the quotient n / d (d > 0): to the nearest integer,
\* a half to the even neighbour
round_div(n, d) ==
    LET q == n \div d
        r == n % d
    IN  IF 2 * r < d THEN q
        ELSE IF 2 * r > d THEN q + 1
        ELSE IF q % 2 = 0 THEN q ELSE q + 1

\* The aspect ratio taken upside down
target_h_swapped(target_w, w0, h0) == round_div(target_w * w0, h0)

\* target_h = int(round((target_w * h0) / w0))
target_h(target_w, w0, h0) == round_div(target_w * h0, w0)

\* A resize that returns an empty image for an empty size
resize_accepts_any(tw, th) == TRUE

\* Image.resize accepts a size only when both sides are at least 1; any
\* other size makes it raise ValueError ("height and width must be > 0")
resize_accepts(tw, th) == tw >= 1 /\ th >= 1

\* Pixel values the resampling filter is taken to produce
Samples == << <<255, 255, 255>>, <<20, 21, 25>>, <<128, 199, 248>> >>

\* The resized images of height h and width w: the resampled content is
\* taken from a family of grids over Samples, pixel (y, x) being sample
\* s + x + y (cyclically), rows and columns counted from 0
Pattern(h, w, s) ==
    [y \in 1..h |-> [x \in 1..w |->
        Samples[((s + (x - 1) + (y - 1)) % Len(Samples)) + 1]]]

Resized(h, w) == {Pattern(h, w, s) : s \in 0..(Len(Samples) - 1)}

----------------------------------------------------------------------------
(* The run of main() *)

\* How a failed run ended: the call that raised and what it raised
ImageLoadError == "Image.open raised"
InvalidDimension == "Image.resize raised ValueError"
CommandLimitExceeded == "SystemExit: command count exceeded max-commands"
OutputWriteError == "open(out_path) raised OSError"
PreviewError == "preview.save raised"

NoPreview == [size |-> <<0, 0>>, scale |-> 0, cells |-> <<>>]
NoImage == [size |-> <<0, 0>>, px |-> <<>>]
NoIdx == 0 - 1

\* (--startx, --starty, --startz)
Starts == { <<0, 64, 0>>, <<5, 0 - 7, 0 - 3>>, <<0 - 12, 100, 9>> }

Args ==
    [ width : (0 - 1)..MaxWidth,
      start : Starts,
      blocktype : DOMAIN PALETTES,
      flipy : BOOLEAN,
      preview : BOOLEAN,
      max_commands : (0 - 1)..MaxCommands ]

\* The output path before the run: absent, or a file of an earlier run
Files == { [exists |-> FALSE, lines |-> <<>>],
           [exists |-> TRUE, lines |-> <<"say old">>] }

Idle ==
    /\ err = ""
    /\ im_size = <<0, 0>>
    /\ target = <<0, 0>>
    /\ im_small = NoImage
    /\ pixels = <<>>
    /\ H = 0
    /\ W = 0
    /\ mapped_idxs = <<>>
    /\ row_idx = 0
    /\ col_idx = 0
    /\ commands = <<>>
    /\ calls = <<>>
    /\ file = file0
    /\ writes = 0
    /\ preview = NoPreview

Init ==
    /\ pc = "load"
    /\ args \in Args
    /\ file0 \in Files
    /\ Idle
    /\ rgb = <<0, 0, 0>>
    /\ palette_arr = <<>>
    /\ idx = NoIdx

Fail(e) ==
    /\ pc' = "failed"
    /\ err' = e

\* Image.open(...).convert("RGBA"), composited onto white, converted to RGB
Load ==
    /\ pc = "load"
    /\ \/ /\ Fail(ImageLoadError)
          /\ UNCHANGED im_size
       \/ /\ \E w0 \in 1..MaxW0, h0 \in 1..MaxH0 : im_size' = <<w0, h0>>
          /\ pc' = "resize"
          /\ UNCHANGED err
    /\ UNCHANGED <<args, target, im_small, pixels, H, W, mapped_idxs, row_idx,
                   col_idx, commands, calls, file, file0, writes, preview, nvars>>

\* target_w, target_h and im.resize((target_w, target_h), Image.LANCZOS)
Resize ==
    /\ pc = "resize"
    /\ LET tw == args.width
           th == target_h(tw, im_size[1], im_size[2])
       IN  /\ target' = <<tw, th>>
           /\ IF resize_accepts(tw, th)
              THEN /\ \E g \in Resized(th, tw) :
                        im_small' = [size |-> <<tw, th>>, px |-> g]
                   /\ pc' = "quantize"
                   /\ UNCHANGED err
              ELSE /\ Fail(InvalidDimension)
                   /\ UNCHANGED im_small
    /\ UNCHANGED <<args, im_size, pixels, H, W, mapped_idxs, row_idx, col_idx,
                   commands, calls, file, file0, writes, preview, nvars>>

\* The palette choice, np.array(im_small) and the quantization loops
Quantize ==
    /\ pc = "quantize"
    /\ LET palette == PALETTES[args.blocktype]
           h == im_small.size[2]
           w == im_small.size[1]
       IN  /\ pixels' = im_small.px
           /\ H' = h
           /\ W' = w
           /\ mapped_idxs' =
                [y \in 1..h |-> [x \in 1..w |->
                    nearest_color(im_small.px[y][x], palette_colors(palette))]]
    /\ commands' = <<>>
    /\ row_idx' = 0
    /\ col_idx' = 0
    /\ pc' = "emit"
    /\ UNCHANGED <<err, args, im_size, target, im_small, calls, file, file0,
                   writes, preview, nvars>>

\* The two directions exchanged
z_offset_row_swapped(r, h, flipy) == IF flipy THEN h - 1 - r ELSE r

\* The row's depth offset: the top row of the image is the farthest row
\* unless --flipy is given
z_offset_row(r, h, flipy) == IF flipy THEN r ELSE h - 1 - r

\* The limit reached, not exceeded
over_limit_ge(n, max_commands) == n >= max_commands

\* The limit check made after every append
over_limit(n, max_commands) == n > max_commands

\* An emission that writes every command to the file as soon as it is built
EmitCellStreaming ==
    /\ pc = "emit"
    /\ row_idx < H
    /\ col_idx < W
    /\ LET y == args.start[2]
           zrow == z_offset_row(row_idx, H, args.flipy)
           palette_idx == mapped_idxs[row_idx + 1][col_idx + 1]
           block_color_name ==
               palette_names(PALETTES[args.blocktype])[palette_idx + 1]
           full == block_fullname(block_color_name, args.blocktype)
           xoff == args.start[1] + col_idx
           zoff == args.start[3] + zrow
           cmd == build_setblock_cmd(xoff, y, zoff, full)
       IN  /\ commands' = Append(commands, cmd)
           /\ calls' = Append(calls, [row |-> row_idx, col |-> col_idx,
                                      xoff |-> xoff, y |-> y, zoff |-> zoff,
                                      block |-> full])
           /\ file' = [exists |-> TRUE, lines |-> Append(commands, cmd)]
           /\ writes' = writes + 1
    /\ IF over_limit(Len(commands) + 1, args.max_commands)
       THEN /\ Fail(CommandLimitExceeded)
            /\ UNCHANGED <<row_idx, col_idx>>
       ELSE /\ IF col_idx + 1 < W
               THEN /\ col_idx' = col_idx + 1
                    /\ UNCHANGED row_idx
               ELSE /\ col_idx' = 0
                    /\ row_idx' = row_idx + 1
            /\ UNCHANGED <<pc, err>>
    /\ UNCHANGED <<args, im_size, target, im_small, pixels, H, W, mapped_idxs,
                   file0, preview, nvars>>

\* One iteration of the inner loop of the emission: build the command of
\* cell (row_idx, col_idx), append it, check the limit
EmitCell ==
    /\ pc = "emit"
    /\ row_idx < H
    /\ col_idx < W
    /\ LET y == args.start[2]
           zrow == z_offset_row(row_idx, H, args.flipy)
           palette_idx == mapped_idxs[row_idx + 1][col_idx + 1]
           block_color_name ==
               palette_names(PALETTES[args.blocktype])[palette_idx + 1]
           full == block_fullname(block_color_name, args.blocktype)
           xoff == args.start[1] + col_idx
           zoff == args.start[3] + zrow
           cmd == build_setblock_cmd(xoff, y, zoff, full)
       IN  /\ commands' = Append(commands, cmd)
           /\ calls' = Append(calls, [row |-> row_idx, col |-> col_idx,
                                      xoff |-> xoff, y |-> y, zoff |-> zoff,
                                      block |-> full])
    /\ IF over_limit(Len(commands) + 1, args.max_commands)
       THEN /\ Fail(CommandLimitExceeded)
            /\ UNCHANGED <<row_idx, col_idx>>
       ELSE /\ IF col_idx + 1 < W
               THEN /\ col_idx' = col_idx + 1
                    /\ UNCHANGED row_idx
               ELSE /\ col_idx' = 0
                    /\ row_idx' = row_idx + 1
            /\ UNCHANGED <<pc, err>>
    /\ UNCHANGED <<args, im_size, target, im_small, pixels, H, W, mapped_idxs,
                   file, file0, writes, preview, nvars>>

\* The emission loops have run over every cell: on to make_mcfunction
EmitDone ==
    /\ pc = "emit"
    /\ (row_idx >= H \/ W <= 0)
    /\ pc' = "write"
    /\ UNCHANGED <<err, args, im_size, target, im_small, pixels, H, W,
                   mapped_idxs, row_idx, col_idx, commands, calls, file, file0,
                   writes, preview, nvars>>

\* The file opened in append mode
make_mcfunction_append ==
    /\ pc = "write"
    /\ \/ /\ Fail(OutputWriteError)
          /\ UNCHANGED <<file, writes>>
       \/ /\ file' = [exists |-> TRUE, lines |-> file.lines \o commands]
          /\ writes' = writes + 1
          /\ pc' = IF args.preview THEN "preview" ELSE "done"
          /\ UNCHANGED err
    /\ UNCHANGED <<args, im_size, target, im_small, pixels, H, W, mapped_idxs,
                   row_idx, col_idx, commands, calls, file0, preview, nvars>>

\* make_mcfunction(commands, args.out): the file holds the commands, one
\* per line, in place of whatever it held
make_mcfunction ==
    /\ pc = "write"
    /\ \/ /\ Fail(OutputWriteError)
          /\ UNCHANGED <<file, writes>>
       \/ /\ file' = [exists |-> TRUE, lines |-> commands]
          /\ writes' = writes + 1
          /\ pc' = IF args.preview THEN "preview" ELSE "done"
          /\ UNCHANGED err
    /\ UNCHANGED <<args, im_size, target, im_small, pixels, H, W, mapped_idxs,
                   row_idx, col_idx, commands, calls, file0, preview, nvars>>

\* The preview: one pixel per cell in the colour of its palette entry,
\* resized to 8 times the size with Image.NEAREST, saved
SavePreview ==
    /\ pc = "preview"
    /\ \/ /\ Fail(PreviewError)
          /\ UNCHANGED preview
       \/ /\ preview' =
                [size |-> <<W * 8, H * 8>>, scale |-> 8,
                 cells |-> [y \in 1..H |-> [x \in 1..W |->
                    palette_colors(PALETTES[args.blocktype])[mapped_idxs[y][x] + 1]]]]
          /\ pc' = "done"
          /\ UNCHANGED err
    /\ UNCHANGED <<args, im_size, target, im_small, pixels, H, W, mapped_idxs,
                   row_idx, col_idx, commands, calls, file, file0, writes, nvars>>

Next ==
    \/ Load
    \/ Resize
    \/ Quantize
    \/ EmitCell
    \/ EmitDone
    \/ make_mcfunction
    \/ SavePreview

Spec == Init /\ [][Next]_vars

----------------------------------------------------------------------------
(* nearest_color on its own *)

\* The argparse defaults
DefaultArgs ==
    [ width |-> 64, start |-> <<0, 64, 0>>, blocktype |-> "concrete",
      flipy |-> FALSE, preview |-> FALSE, max_commands |-> 100000 ]

Chan == {0, 100, 200, 255}

Entries == { <<0, 0, 0>>, <<200, 0, 0>>, <<0, 200, 0>>, <<255, 255, 255>> }

BuiltinColors == {palette_colors(PALETTES[f]) : f \in DOMAIN PALETTES}

\* The palettes nearest_color is tried on: the two built-in ones and every
\* sequence of 1 .. MaxPal entries, repeated entries included
NearestPalettes ==
    BuiltinColors \cup UNION {[1..n -> Entries] : n \in 1..MaxPal}

\* The pixels it is tried on: a grid of channel values, the resampled
\* samples and every colour of the built-in palettes
NearestPixels ==
    {<<r, g, b>> : r \in Chan, g \in Chan, b \in Chan}
        \cup {Samples[i] : i \in 1..Len(Samples)}
        \cup UNION {{c[i] : i \in 1..Len(c)} : c \in BuiltinColors}

InitNearest ==
    /\ pc = "call"
    /\ args = DefaultArgs
    /\ file0 = [exists |-> FALSE, lines |-> <<>>]
    /\ Idle
    /\ rgb \in NearestPixels
    /\ palette_arr \in NearestPalettes
    /\ idx = NoIdx

CallNearest ==
    /\ pc = "call"
    /\ idx' = nearest_color(rgb, palette_arr)
    /\ pc' = "returned"
    /\ UNCHANGED <<err, args, im_size, target, im_small, pixels, H, W,
                   mapped_idxs, row_idx, col_idx, commands, calls, file, file0,
                   writes, preview, rgb, palette_arr>>

NextNearest == CallNearest

SpecNearest == InitNearest /\ [][NextNearest]_vars

----------------------------------------------------------------------------
(* Properties *)

\* The squared Euclidean distance of two RGB triples, over the integers
SqDist(a, b) ==
    (a[1] - b[1]) * (a[1] - b[1]) + (a[2] - b[2]) * (a[2] - b[2])
        + (a[3] - b[3]) * (a[3] - b[3])

Returned == pc = "returned"

\* C1: nearest_color returns an index of the palette whose entry is at a
\* squared RGB distance from the pixel no larger than any other entry's,
\* and every entry before it is strictly farther: among the entries at the
\* minimal distance it is the first in definition order.
C1_NearestIsFirstMinimum ==
    Returned =>
        /\ idx \in 0..(Len(palette_arr) - 1)
        /\ \A j \in 1..Len(palette_arr) :
              SqDist(palette_arr[idx + 1], rgb) <= SqDist(palette_arr[j], rgb)
        /\ \A j \in 1..idx :
              SqDist(palette_arr[j], rgb) > SqDist(palette_arr[idx + 1], rgb)

\* A pixel equidistant from two different entries, the lower one returned
C1_Witness ==
    /\ Returned
    /\ \E j \in (idx + 2)..Len(palette_arr) :
          /\ palette_arr[j] # palette_arr[idx + 1]
          /\ SqDist(palette_arr[j], rgb) = SqDist(palette_arr[idx + 1], rgb)
          /\ SqDist(palette_arr[j], rgb) > 0

\* C2: on each built-in palette, a pixel equal to the colour of entry k is
\* mapped to k (0-based: k - 1), and the entry returned is at distance 0.
C2_ExactColourMapsToItself ==
    (Returned /\ palette_arr \in BuiltinColors) =>
        \A k \in 1..Len(palette_arr) :
            palette_arr[k] = rgb =>
                /\ idx = k - 1
                /\ SqDist(palette_arr[idx + 1], rgb) = 0

\* The last entry of the concrete palette (black) given as the pixel
C2_Witness ==
    /\ Returned
    /\ palette_arr = palette_colors(CONCRETE_PALETTE)
    /\ rgb = <<20, 21, 25>>
    /\ idx = 15

LimitAbort == pc = "failed" /\ err = CommandLimitExceeded

\* The run got past the emission loop without the limit abort
PastEmission ==
    \/ pc \in {"write", "preview", "done"}
    \/ pc = "failed" /\ err \in {OutputWriteError, PreviewError}

\* The output file was written by this run
Written ==
    \/ pc \in {"preview", "done"}
    \/ pc = "failed" /\ err = PreviewError

\* C3: a run aborted by the command limit has never opened the output path
\* for writing: the path holds what it held (or is absent as it was) at the
\* start.
C3_LimitAbortLeavesFile ==
    LimitAbort => (writes = 0 /\ file = file0)

\* A grid of exactly max-commands + 1 cells, over an existing file
C3_Witness ==
    /\ LimitAbort
    /\ W * H = args.max_commands + 1
    /\ W * H > 1
    /\ file0.exists
    /\ file.lines = <<"say old">>

\* C4: the run aborts on the limit exactly when the grid has more cells than
\* max-commands, and reaches make_mcfunction otherwise; the emission loop
\* never stops anywhere else.
C4_LimitCheckIsPreflight ==
    /\ LimitAbort => W * H > args.max_commands
    /\ PastEmission => W * H <= args.max_commands
    /\ pc = "emit" => (ENABLED EmitCell \/ ENABLED EmitDone)

\* A grid of exactly max-commands cells reaches make_mcfunction
C4_Witness ==
    /\ pc = "write"
    /\ W * H = args.max_commands
    /\ W * H > 1

\* The command the emitter has to produce for cell (r, c), 0-based
Tok(o) == IF o = 0 THEN "~" ELSE "~" \o ToString(o)

CellName(r, c) ==
    PALETTES[args.blocktype][mapped_idxs[r + 1][c + 1] + 1].name

CellCmd(r, c) ==
    "setblock " \o Tok(args.start[1] + c) \o " " \o ToString(args.start[2])
        \o " " \o Tok(args.start[3] + (IF args.flipy THEN r ELSE H - 1 - r))
        \o " minecraft:" \o CellName(r, c) \o "_" \o args.blocktype
        \o " replace"

\* C5: a run that passes the limit has one command per grid cell, in
\* row-major order (position r*W + c holds the command of cell (r, c)), and
\* once written the file holds exactly these commands in this order.
C5_RowMajorCommandsWritten ==
    /\ PastEmission =>
          /\ Len(commands) = W * H
          /\ Len(calls) = W * H
          /\ \A r \in 0..(H - 1), c \in 0..(W - 1) :
                /\ calls[r * W + c + 1].row = r
                /\ calls[r * W + c + 1].col = c
                /\ commands[r * W + c + 1] = CellCmd(r, c)
    /\ Written => (file.exists /\ file.lines = commands /\ writes = 1)

\* A grid of two rows and two columns written over an existing file
C5_Witness ==
    /\ pc = "done"
    /\ H = 2
    /\ W = 2
    /\ file0.exists
    /\ Len(file.lines) = 4

TokSpelled(o) ==
    CASE o = 0 -> "~"
      [] o = 5 -> "~5"
      [] o = 0 - 3 -> "~-3"
      [] OTHER -> "~" \o ToString(o)

\* C7: every command is
\*   setblock <xtok> <y> <ztok> minecraft:<color>_<family> replace
\* with <color> the palette name of the cell's quantized index, <family> the
\* chosen block family, and each token "~" for offset 0 and "~" followed by
\* the signed decimal number otherwise.
C7_CommandShape ==
    /\ Len(commands) = Len(calls)
    /\ \A i \in 1..Len(commands) :
          LET k == calls[i]
          IN  /\ k.block = "minecraft:" \o CellName(k.row, k.col) \o "_"
                               \o args.blocktype
              /\ commands[i] =
                    "setblock " \o TokSpelled(k.xoff) \o " " \o ToString(k.y)
                        \o " " \o TokSpelled(k.zoff) \o " " \o k.block
                        \o " replace"

\* Offsets 5 and -3 and a negative height in the first command of a run
C7_Witness ==
    /\ Len(commands) >= 2
    /\ calls[1].xoff = 5
    /\ calls[1].zoff = 0 - 3
    /\ commands[1] \in
          { "setblock ~5 -7 ~-3 minecraft:" \o n \o "_wool replace" :
                n \in {"white", "black", "light_blue"} }

\* The requested size is unusable: the width is not positive, or the height
\* of the loaded image scaled to it rounds to 0
BadDimension ==
    \/ args.width <= 0
    \/ im_size # <<0, 0>> /\ 2 * args.width * im_size[2] <= im_size[1]

\* C8: a run with an unusable size never gets to the quantization: once the
\* image is loaded and the resize attempted it has failed at the resize,
\* and nothing was quantized, emitted or written.
C8_BadDimensionFails ==
    BadDimension =>
        /\ pc \in {"load", "resize", "failed"}
        /\ (pc = "failed" /\ im_size # <<0, 0>>) => err = InvalidDimension
        /\ (pc = "failed" /\ im_size = <<0, 0>>) => err = ImageLoadError
        /\ mapped_idxs = <<>>
        /\ commands = <<>>
        /\ writes = 0
        /\ file = file0

\* A positive width whose height rounds to 0
C8_Witness ==
    /\ pc = "failed"
    /\ err = InvalidDimension
    /\ args.width = 1
    /\ im_size = <<2, 1>>
    /\ target = <<1, 0>>

\* C9: the resized image, the pixel array and the quantized grid are
\* args.width wide and as high as width * h0 / w0 rounded to the nearest
\* integer.
C9_GridDimensions ==
    LET w0 == im_size[1]
        h0 == im_size[2]
        Nearest(h) == /\ 2 * (h * w0 - args.width * h0) <= w0
                      /\ 2 * (args.width * h0 - h * w0) <= w0
    IN  /\ im_small # NoImage =>
              /\ args.width >= 1
              /\ im_small.size[1] = args.width
              /\ Nearest(im_small.size[2])
              /\ Len(im_small.px) = im_small.size[2]
              /\ \A y \in 1..Len(im_small.px) : Len(im_small.px[y]) = args.width
        /\ pc \in {"emit", "write", "preview", "done"} =>
              /\ W = args.width
              /\ Nearest(H)
              /\ pixels = im_small.px
              /\ Len(mapped_idxs) = H
              /\ \A y \in 1..H : Len(mapped_idxs[y]) = W
              /\ row_idx \in 0..H
              /\ col_idx \in 0..(W - 1)

\* A 3 x 2 image at width 2: 4/3 rounds to 1 row
C9_Witness ==
    /\ pc = "emit"
    /\ im_size = <<3, 2>>
    /\ args.width = 2
    /\ H = 1
    /\ W = 2

\* C10: the grid of one row (255,255,255), (20,21,25) on the concrete
\* palette, start (0, 64, 0), no flip, limit at least 2, gives exactly the
\* commands for white_concrete at ~ 64 ~ and black_concrete at ~1 64 ~.
C10_EndToEnd ==
    ( /\ PastEmission
      /\ pixels = << << <<255, 255, 255>>, <<20, 21, 25>> >> >>
      /\ args.blocktype = "concrete"
      /\ args.start = <<0, 64, 0>>
      /\ ~args.flipy
      /\ args.max_commands >= 2 )
    => /\ commands = << "setblock ~ 64 ~ minecraft:white_concrete replace",
                        "setblock ~1 64 ~ minecraft:black_concrete replace" >>
       /\ mapped_idxs = << <<0, 15>> >>
       /\ \A i \in 1..2 : calls[i].zoff = 0 /\ calls[i].y = 64
                             /\ calls[i].xoff = i - 1

C10_Witness ==
    /\ pc = "done"
    /\ pixels = << << <<255, 255, 255>>, <<20, 21, 25>> >> >>
    /\ args.blocktype = "concrete"
    /\ args.start = <<0, 64, 0>>
    /\ ~args.flipy
    /\ args.max_commands >= 2
    /\ Len(file.lines) = 2

====
